---- MODULE Spec2Model ----
(***************************************************************************)
(* yggdrasilctl (cmd/yggdrasilctl/main.go): the admin-socket client.       *)
(*                                                                         *)
(* run() is modelled as a state machine over its program positions; the    *)
(* request builder works on command-line tokens given as sequences of      *)
(* one-character strings, the response formatters on decoded JSON values   *)
(* given as tagged records:                                                *)
(*   [t |-> "null"]  [t |-> "bool", v |-> b]  [t |-> "num", v |-> n]       *)
(*   [t |-> "str", v |-> s]  [t |-> "arr", v |-> <<..>>]                   *)
(*   [t |-> "map", v |-> [key |-> value, ...]]                             *)
(* Numbers are naturals below 10^6 unless said otherwise, where            *)
(* fmt.Sprint of a float64 is the plain decimal text.                      *)
(***************************************************************************)
EXTENDS Integers, Sequences, FiniteSets, TLC

VARIABLES
    pc,         \* position in run()
    args,       \* cmdLineEnv.args
    ver,        \* cmdLineEnv.ver
    injson,     \* cmdLineEnv.injson
    verbose,    \* cmdLineEnv.verbose
    conn,       \* the byte stream: "none", "open", "closed"
    closes,     \* number of conn.Close() calls made
    defers,     \* run()'s stack of deferred calls, last pushed last
    idx,        \* loop index c of the argument loop (1-based)
    send,       \* the request map under construction
    wire,       \* the documents written to the daemon
    recv,       \* the decoded response map
    logbuf,     \* logbuffer: what logger has written
    out,        \* standard output: the items printed so far
    panicking,  \* a panic is unwinding run()
    ret,        \* the value of the return statement run() executed
    exit,       \* the code handed to os.Exit, -1 while running
    ran,        \* the formatter stage that produced output: "none", "json", "handleAll"
    tres,       \* table renderer: res, the response record
    tleft,      \* table renderer: the categories of res not yet ranged over
    tcur,       \* table renderer: the category ranged over last, "none" before the first
    tst,        \* table renderer: keyOrder, keysOrdered, maxWidths and what tcur printed
    tphase      \* table renderer: "next" between categories, "measured" before the record lines

vars == <<pc, args, ver, injson, verbose, conn, closes, defers, idx, send, wire,
          recv, logbuf, out, panicking, ret, exit, ran, tres, tleft, tcur, tst,
          tphase>>

tableVars == <<tres, tleft, tcur, tst, tphase>>

\* Bounds of the model.
MaxArgs == 3
MaxRecords == 2

EmptyMap == [k \in {} |-> 0]

Max(a, b) == IF a >= b THEN a ELSE b

(***************************************************************************)
(* Text helpers over sequences of one-character strings.                   *)
(***************************************************************************)
Digits == <<"0", "1", "2", "3", "4", "5", "6", "7", "8", "9">>
UpperCase == <<"A", "B", "C", "D", "E", "F", "G", "H", "I", "J", "K", "L", "M",
               "N", "O", "P", "Q", "R", "S", "T", "U", "V", "W", "X", "Y", "Z">>
LowerCase == <<"a", "b", "c", "d", "e", "f", "g", "h", "i", "j", "k", "l", "m",
               "n", "o", "p", "q", "r", "s", "t", "u", "v", "w", "x", "y", "z">>

IsDigit(c) == \E i \in 1..10 : Digits[i] = c
DigitVal(c) == (CHOOSE i \in 1..10 : Digits[i] = c) - 1

\* strings.ToLower on one character, then on a text
LowerChar(c) ==
    IF \E i \in 1..26 : UpperCase[i] = c
    THEN LowerCase[CHOOSE i \in 1..26 : UpperCase[i] = c]
    ELSE c
ToLower(s) == [i \in 1..Len(s) |-> LowerChar(s[i])]

HasPrefixDash(a) == Len(a) >= 1 /\ a[1] = "-"

\* position of the first "=" of s, 0 when there is none
FirstEq(s) ==
    IF \E i \in 1..Len(s) : s[i] = "="
    THEN CHOOSE i \in 1..Len(s) : s[i] = "=" /\ \A j \in 1..(i - 1) : s[j] # "="
    ELSE 0

\* strings.Split(a, "=")
RECURSIVE Split(_)
Split(s) ==
    IF FirstEq(s) = 0 THEN <<s>>
    ELSE <<SubSeq(s, 1, FirstEq(s) - 1)>> \o Split(SubSeq(s, FirstEq(s) + 1, Len(s)))

\* strings.Join(tokens, "=")
RECURSIVE Join(_)
Join(tokens) ==
    IF Len(tokens) = 0 THEN <<>>
    ELSE IF Len(tokens) = 1 THEN tokens[1]
    ELSE tokens[1] \o <<"=">> \o Join(Tail(tokens))

\* strconv.Atoi: an optional sign, then one or more decimal digits
AtoiDigits(s) ==
    IF Len(s) >= 1 /\ (s[1] = "+" \/ s[1] = "-") THEN Tail(s) ELSE s
AtoiOk(s) ==
    /\ Len(AtoiDigits(s)) >= 1
    /\ \A i \in 1..Len(AtoiDigits(s)) : IsDigit(AtoiDigits(s)[i])
RECURSIVE DecimalVal(_)
DecimalVal(d) ==
    IF Len(d) = 0 THEN 0
    ELSE 10 * DecimalVal(SubSeq(d, 1, Len(d) - 1)) + DigitVal(d[Len(d)])
AtoiVal(s) ==
    IF Len(s) >= 1 /\ s[1] = "-" THEN 0 - DecimalVal(AtoiDigits(s))
    ELSE DecimalVal(AtoiDigits(s))

(***************************************************************************)
(* The request builder: one iteration of the loop over cmdLineEnv.args.    *)
(* c is the 0-based index of the source, a the argument.                   *)
(***************************************************************************)
RequestKey == <<"r", "e", "q", "u", "e", "s", "t">>
TrueText == <<"t", "r", "u", "e">>
FalseText == <<"f", "a", "l", "s", "e">>

GoBool(b) == [t |-> "bool", v |-> b]
GoInt(i) == [t |-> "int", v |-> i]
GoString(s) == [t |-> "string", v |-> s]

\* send[k] = v
MapPut(m, k, v) == [x \in DOMAIN m \cup {k} |-> IF x = k THEN v ELSE m[x]]

\* a coercion whose switch compares v itself, without strings.ToLower
CoerceCaseSensitive(v) ==
    IF AtoiOk(v) THEN GoInt(AtoiVal(v))
    ELSE IF v = TrueText THEN GoBool(TRUE)
    ELSE IF v = FalseText THEN GoBool(FALSE)
    ELSE GoString(v)

\* the len(tokens) == 2 branch: strconv.Atoi, then the switch on ToLower
Coerce(v) ==
    IF AtoiOk(v) THEN GoInt(AtoiVal(v))
    ELSE IF ToLower(v) = TrueText THEN GoBool(TRUE)
    ELSE IF ToLower(v) = FalseText THEN GoBool(FALSE)
    ELSE GoString(v)

BuildParam(m, c, a) ==
    IF c = 0
    THEN IF HasPrefixDash(a) THEN m ELSE MapPut(m, RequestKey, GoString(a))
    ELSE LET tokens == Split(a) IN
         IF Len(tokens) = 1 THEN MapPut(m, tokens[1], GoBool(TRUE))
         ELSE IF Len(tokens) > 2
              THEN MapPut(m, tokens[1], GoString(Join(Tail(tokens))))
              ELSE MapPut(m, tokens[1], Coerce(tokens[2]))

\* what the loop logs in iteration c
BuildLog(c, a) ==
    IF c = 0
    THEN IF HasPrefixDash(a) THEN <<"Ignoring flag">> ELSE <<"Sending request">>
    ELSE IF Len(Split(a)) = 2 THEN <<"Sending parameter">> ELSE <<>>

(***************************************************************************)
(* json.Encoder.Encode(&send): a Go bool is written as a JSON boolean, an  *)
(* int as a JSON number, a string as a JSON string, under the map's keys.  *)
(***************************************************************************)
JsonOf(g) ==
    IF g.t = "bool" THEN [t |-> "bool", v |-> g.v]
    ELSE IF g.t = "int" THEN [t |-> "num", v |-> g.v]
    ELSE [t |-> "str", v |-> g.v]
EncodeMap(m) == [t |-> "map", v |-> [k \in DOMAIN m |-> JsonOf(m[k])]]

(***************************************************************************)
(* Decoded JSON values and fmt's text of them.                             *)
(***************************************************************************)
Null == [t |-> "null"]
B(b) == [t |-> "bool", v |-> b]
N(n) == [t |-> "num", v |-> n]
S(s) == [t |-> "str", v |-> s]
A(seq) == [t |-> "arr", v |-> seq]
M(f) == [t |-> "map", v |-> f]

IsMap(x) == x.t = "map"
IsArr(x) == x.t = "arr"
IsNum(x) == x.t = "num"
IsStr(x) == x.t = "str"
IsBool(x) == x.t = "bool"

\* m[k] of a Go map: the zero value nil when k is absent
Get(m, k) == IF k \in DOMAIN m THEN m[k] ELSE Null

\* every map key of the model in sort.Strings order (byte-wise ascending)
NameOrder ==
    <<"a", "added", "allowed_box_pubs", "bb", "box_pub_key", "box_sig_key",
      "build_name", "bytes_recvd", "bytes_sent", "ccc", "coords", "dddd", "dot",
      "eeeee", "enabled", "key", "maximum_queues_size", "mtu", "multicast_interfaces",
      "name", "nodeinfo", "not_removed", "peers", "port", "queue_id", "queue_packets",
      "queue_port", "queue_size", "queues", "queues_count", "removed", "request",
      "routes", "self", "sessions", "source_subnets", "switchqueues", "tap_mode",
      "tun0", "uptime", "was_mtu_fixed">>

\* sort.Strings of a set of distinct names
RECURSIVE SortFrom(_, _)
SortFrom(names, i) ==
    IF i > Len(NameOrder) THEN <<>>
    ELSE IF NameOrder[i] \in names THEN <<NameOrder[i]>> \o SortFrom(names, i + 1)
    ELSE SortFrom(names, i + 1)
SortStrings(names) == SortFrom(names, 1)

DigitText(d) == CASE d = 0 -> "0" [] d = 1 -> "1" [] d = 2 -> "2" [] d = 3 -> "3"
                  [] d = 4 -> "4" [] d = 5 -> "5" [] d = 6 -> "6" [] d = 7 -> "7"
                  [] d = 8 -> "8" [] d = 9 -> "9"

\* %d of a non-negative integer
RECURSIVE Itoa(_)
Itoa(n) == IF n < 10 THEN DigitText(n) ELSE Itoa(n \div 10) \o DigitText(n % 10)

\* %02d
Itoa2(n) == IF n < 10 THEN "0" \o Itoa(n) ELSE Itoa(n)

RECURSIVE StripZeros(_)
StripZeros(n) == IF n > 0 /\ n % 10 = 0 THEN StripZeros(n \div 10) ELSE n

\* %v of an integral float64: shortest digits, exponent form from 10^6 on
SprintNum(n) ==
    IF n < 1000000 THEN Itoa(n)
    ELSE LET digits == Itoa(StripZeros(n))
             exp == Len(Itoa(n)) - 1
             first == Itoa(StripZeros(n) \div (10 ^ (Len(digits) - 1)))
             rest == StripZeros(n) % (10 ^ (Len(digits) - 1))
             pad == Len(digits) - 1 - (IF rest = 0 THEN 0 ELSE Len(Itoa(rest)))
             zeros == [i \in 0..9 |-> CASE i = 0 -> "" [] i = 1 -> "0" [] i = 2 -> "00"
                         [] i = 3 -> "000" [] i = 4 -> "0000" [] i = 5 -> "00000"
                         [] i = 6 -> "000000" [] i = 7 -> "0000000"
                         [] i = 8 -> "00000000" [] i = 9 -> "000000000"]
         IN first
            \o (IF Len(digits) = 1 THEN "" ELSE "." \o zeros[pad] \o Itoa(rest))
            \o "e+" \o Itoa2(exp)

\* fmt.Sprint of a decoded value
RECURSIVE Sprint(_)
RECURSIVE SprintElems(_)
RECURSIVE SprintEntries(_, _)
Sprint(x) ==
    CASE x.t = "null" -> "<nil>"
      [] x.t = "bool" -> (IF x.v THEN "true" ELSE "false")
      [] x.t = "num" -> SprintNum(x.v)
      [] x.t = "str" -> x.v
      [] x.t = "arr" -> "[" \o SprintElems(x.v) \o "]"
      [] x.t = "map" -> "map[" \o SprintEntries(x.v, SortStrings(DOMAIN x.v)) \o "]"
SprintElems(seq) ==
    IF Len(seq) = 0 THEN ""
    ELSE IF Len(seq) = 1 THEN Sprint(seq[1])
    ELSE Sprint(seq[1]) \o " " \o SprintElems(Tail(seq))
SprintEntries(f, keys) ==
    IF Len(keys) = 0 THEN ""
    ELSE IF Len(keys) = 1 THEN keys[1] \o ":" \o Sprint(f[keys[1]])
    ELSE keys[1] \o ":" \o Sprint(f[keys[1]]) \o " " \o SprintEntries(f, Tail(keys))

RECURSIVE Spaces(_)
Spaces(n) == IF n <= 0 THEN "" ELSE " " \o Spaces(n - 1)

\* fmt.Sprintf("%-Ns", s): left-justified to at least w bytes
Pad(s, w) == s \o Spaces(w - Len(s))

(***************************************************************************)
(* Output.  A printed line is [k |-> "line", s |-> text]; a line cut short *)
(* by a panic is "part"; the indented JSON text of a value is "json".  A   *)
(* formatter's result is [out |-> items, panic |-> a type assertion        *)
(* failed]; a formatter that ranges over a Go map gives the set of results *)
(* of the iteration orders.                                                *)
(***************************************************************************)
Line(s) == [k |-> "line", s |-> s]
Part(s) == [k |-> "part", s |-> s]
JsonText(x) == [k |-> "json", v |-> x]

Ok(items) == [out |-> items, panic |-> FALSE]
Panic(items) == [out |-> items, panic |-> TRUE]

\* statements in sequence: the output up to the first panic
RECURSIVE Chain(_)
Chain(rs) ==
    IF Len(rs) = 0 THEN Ok(<<>>)
    ELSE IF rs[1].panic THEN rs[1]
    ELSE LET rest == Chain(Tail(rs)) IN [out |-> rs[1].out \o rest.out, panic |-> rest.panic]

\* the orders in which a range statement may visit a set of keys
Perms(keys) ==
    {p \in [1..Cardinality(keys) -> keys] : \A i, j \in DOMAIN p : i # j => p[i] # p[j]}

\* for k := range keys { body }: the results over the orders of iteration
RangeResults(keys, Body(_)) ==
    {Chain([i \in 1..Cardinality(keys) |-> Body(p[i])]) : p \in Perms(keys)}

\* for _, v := range seq { body }
EachResult(seq, Body(_)) == Chain([i \in 1..Len(seq) |-> Body(seq[i])])

(***************************************************************************)
(* The specialized formatters.  res is the response record's key-to-value  *)
(* function.                                                               *)
(***************************************************************************)
handleDot(res) == {Ok(<<Line(Sprint(Get(res, "dot")))>>)}

TunTapBody(k, x) ==
    IF ~IsMap(x) THEN Panic(<<Line("Interface name: " \o k)>>)
    ELSE Ok(<<Line("Interface name: " \o k)>>
            \o (IF IsNum(Get(x.v, "mtu"))
                THEN <<Line("Interface MTU: " \o Sprint(Get(x.v, "mtu")))>> ELSE <<>>)
            \o (IF IsBool(Get(x.v, "tap_mode"))
                THEN <<Line("TAP mode: " \o Sprint(Get(x.v, "tap_mode")))>> ELSE <<>>))

handleGetAndSetTunTap(res) ==
    LET Body(k) == TunTapBody(k, res[k]) IN RangeResults(DOMAIN res, Body)

\* fmt.Println(label, x[field]) when x[field] is a string
TextLine(x, field, label) ==
    IF IsStr(Get(x.v, field)) THEN <<Line(label \o " " \o Get(x.v, field).v)>> ELSE <<>>

\* the same, skipped when the string is "unknown"
KnownLine(x, field, label) ==
    IF IsStr(Get(x.v, field)) /\ Get(x.v, field).v # "unknown"
    THEN <<Line(label \o " " \o Get(x.v, field).v)>> ELSE <<>>

GetSelfBody(k, x, verb) ==
    IF ~IsMap(x) THEN Panic(<<>>)
    ELSE Ok(KnownLine(x, "build_name", "Build name:")
            \o KnownLine(x, "build_version", "Build version:")
            \o <<Line("IPv6 address: " \o k)>>
            \o TextLine(x, "subnet", "IPv6 subnet:")
            \o TextLine(x, "key", "Public key:")
            \o TextLine(x, "coords", "Coords:")
            \o (IF verb
                THEN TextLine(x, "node_id", "Node ID:")
                     \o TextLine(x, "box_pub_key", "Public encryption key:")
                     \o TextLine(x, "box_sig_key", "Public signing key:")
                ELSE <<>>))

handleGetSelf(res, verb) ==
    IF ~IsMap(Get(res, "self")) THEN {Panic(<<>>)}
    ELSE LET self == Get(res, "self").v
             Body(k) == GetSelfBody(k, self[k], verb)
         IN RangeResults(DOMAIN self, Body)

\* fmt.Printf(label + "%d" + unit) when v[field] is a number
CountLine(v, field, label, unit) ==
    IF IsNum(Get(v, field)) THEN <<Line(label \o Itoa(Get(v, field).v) \o unit)>> ELSE <<>>

DefaultMaximumQueueSize == 4194304

\* %v of []byte(queueid), for the stream ids of the model
BytesText(s) ==
    CASE s = "" -> "[]" [] s = "a" -> "[97]" [] s = "ab" -> "[97 98]" [] OTHER -> "[120]"

\* the four type assertions on one entry of queues
QueueEntryOk(q) ==
    /\ IsMap(q)
    /\ IsNum(Get(q.v, "queue_port"))
    /\ IsNum(Get(q.v, "queue_size"))
    /\ IsNum(Get(q.v, "queue_packets"))
    /\ IsStr(Get(q.v, "queue_id"))

\* uint((100 / maximum) * size): exact when maximum is a power of two
Percent(maximum, size) == (100 * size) \div maximum

QueueLine(q, maximum) ==
    Line("- Switch port " \o Itoa(q.v["queue_port"].v)
         \o ", Stream ID: " \o BytesText(q.v["queue_id"].v)
         \o ", size: " \o Itoa(q.v["queue_size"].v)
         \o " bytes (" \o Itoa(Percent(maximum, q.v["queue_size"].v))
         \o "% full), " \o Itoa(q.v["queue_packets"].v) \o " packets")

\* the entries of queues reached before the first failing assertion
RECURSIVE QueuesReached(_)
QueuesReached(qs) ==
    IF Len(qs) = 0 \/ ~QueueEntryOk(qs[1]) THEN <<>>
    ELSE <<qs[1]>> \o QueuesReached(Tail(qs))

\* portqueues[p], portqueuesize[p] and portqueuepackets[p] after the loop
RECURSIVE PortSum(_, _, _)
PortSum(qs, p, field) ==
    IF Len(qs) = 0 THEN 0
    ELSE (IF qs[1].v["queue_port"].v = p
          THEN (IF field = "count" THEN 1 ELSE qs[1].v[field].v) ELSE 0)
         + PortSum(Tail(qs), p, field)

PortLine(qs, p, maximum) ==
    Ok(<<Line("- Switch port " \o Itoa(p)
              \o ", size: " \o Itoa(PortSum(qs, p, "queue_size"))
              \o " bytes (" \o Itoa(Percent(PortSum(qs, p, "count") * maximum,
                                            PortSum(qs, p, "queue_size")))
              \o "% full), " \o Itoa(PortSum(qs, p, "queue_packets")) \o " packets")>>)

handleGetSwitchQueues(res) ==
    IF ~IsMap(Get(res, "switchqueues")) THEN {Panic(<<>>)}
    ELSE LET v == Get(res, "switchqueues").v
             maximum == IF IsNum(Get(v, "maximum_queues_size"))
                        THEN Get(v, "maximum_queues_size").v
                        ELSE DefaultMaximumQueueSize
             counters ==
                 CountLine(v, "queues_count", "Active queue count: ", " queues")
                 \o CountLine(v, "queues_size", "Active queue size: ", " bytes")
                 \o CountLine(v, "highest_queues_count", "Highest queue count: ", " queues")
                 \o CountLine(v, "highest_queues_size", "Highest queue size: ", " bytes")
                 \o CountLine(v, "maximum_queues_size", "Maximum queue size: ", " bytes")
             queues == IF IsArr(Get(v, "queues")) THEN Get(v, "queues").v ELSE <<>>
             reached == QueuesReached(queues)
             active ==
                 IF Len(queues) = 0 THEN <<>>
                 ELSE <<Line("Active queues:")>>
                      \o [i \in 1..Len(reached) |-> QueueLine(reached[i], maximum)]
             ports == {reached[i].v["queue_port"].v : i \in 1..Len(reached)}
             Body(p) == PortLine(reached, p, maximum)
         IN IF Len(reached) < Len(queues) THEN {Panic(counters \o active)}
            ELSE IF ports = {} THEN {Ok(counters \o active)}
            ELSE {[out |-> counters \o active
                           \o <<Line("Aggregated statistics by switchport:")>> \o r.out,
                   panic |-> FALSE] : r \in RangeResults(ports, Body)}

\* if _, ok := res[field]; ok { for _, v := range res[field].([]interface{}) ... }
AddRemoveField(res, field, label) ==
    IF field \notin DOMAIN res THEN Ok(<<>>)
    ELSE IF ~IsArr(res[field]) THEN Panic(<<>>)
    ELSE Ok([i \in 1..Len(res[field].v) |-> Line(label \o " " \o Sprint(res[field].v[i]))])

handleAddsAndRemoves(res) ==
    {Chain(<<AddRemoveField(res, "added", "Added:"),
             AddRemoveField(res, "not_added", "Not added:"),
             AddRemoveField(res, "removed", "Removed:"),
             AddRemoveField(res, "not_removed", "Not removed:")>>)}

\* the three listing formatters: absent or nil, else a header and one bullet per entry
Listing(res, field, none, header) ==
    IF field \notin DOMAIN res THEN {Ok(<<Line(none)>>)}
    ELSE IF res[field] = Null THEN {Ok(<<Line(none)>>)}
    ELSE IF ~IsArr(res[field]) THEN {Panic(<<Line(header)>>)}
    ELSE {Ok(<<Line(header)>>
             \o [i \in 1..Len(res[field].v) |-> Line("- " \o Sprint(res[field].v[i]))])}

handleGetAllowedEncryptionPublicKeys(res) ==
    Listing(res, "allowed_box_pubs", "All connections are allowed",
            "Connections are allowed only from the following public box keys:")

handleGetMulticastInterfaces(res) ==
    Listing(res, "multicast_interfaces", "No multicast interfaces found",
            "Multicast peer discovery is active on:")

handleGetSourceSubnets(res) ==
    Listing(res, "source_subnets", "No source subnets found", "Source subnets:")

handleGetRoutes(res) ==
    IF ~IsMap(Get(res, "routes")) THEN {Ok(<<Line("No routes found")>>)}
    ELSE LET routes == Get(res, "routes").v
             Body(k) == IF IsStr(routes[k])
                        THEN Ok(<<Line("- " \o k \o "  via  " \o routes[k].v)>>)
                        ELSE Ok(<<>>)
         IN IF DOMAIN routes = {} THEN {Ok(<<Line("No routes found")>>)}
            ELSE {[out |-> <<Line("Routes:")>> \o r.out, panic |-> FALSE] :
                     r \in RangeResults(DOMAIN routes, Body)}

handleGetTunnelRouting(res) ==
    IF ~IsBool(Get(res, "enabled")) THEN {Ok(<<Line("Tunnel routing is disabled")>>)}
    ELSE IF ~Get(res, "enabled").v THEN {Ok(<<Line("Tunnel routing is disabled")>>)}
    ELSE {Ok(<<Line("Tunnel routing is enabled")>>)}

(***************************************************************************)
(* The table renderer, handleVariousInfo.  Its locals keyOrder,            *)
(* keysOrdered and maxWidths are declared once, before the loop over the   *)
(* categories; st is the record of them, with the sampled record, the      *)
(* items the category printed and whether a type assertion failed.         *)
(***************************************************************************)
HiddenFields == {"box_pub_key", "box_sig_key", "nodeinfo", "was_mtu_fixed"}

\* a filter that lets nodeinfo through
ExcludedButNodeinfo(k, verb) == ~verb /\ k \in (HiddenFields \ {"nodeinfo"})

\* the test that skips a field when keyOrder is filled
Excluded(k, verb) == ~verb /\ k \in HiddenFields

\* make(map[string]int), nil keyOrder, keysOrdered = false
FreshTable ==
    [keyOrder |-> <<>>, keysOrdered |-> FALSE, maxWidths |-> EmptyMap,
     sample |-> <<>>, out |-> <<>>, panic |-> FALSE]

\* maxWidths[n]: 0 when n was never assigned
Width(w, n) == IF n \in DOMAIN w THEN w[n] ELSE 0

\* the loop over the fields of one record that raises maxWidths: every iteration
\* raises maxWidths["key"] to the record key's length, and the iteration of field n
\* raises maxWidths[n] (a field named "key" shares the entry of the key column)
WidenedKey(w, slk, rec) ==
    IF DOMAIN rec # {} THEN Max(Width(w, "key"), Len(slk)) ELSE Width(w, "key")

Widened(w, slk, rec, n) ==
    LET cur == IF n = "key" THEN WidenedKey(w, slk, rec) ELSE Width(w, n)
    IN IF n \in DOMAIN rec /\ Len(Sprint(rec[n])) > cur
       THEN Max(Len(Sprint(rec[n])), Len(n))
       ELSE cur

Widen(w, slk, rec) ==
    [n \in DOMAIN w \cup {k \in DOMAIN rec \cup {"key"} : Widened(w, slk, rec, k) > Width(w, k)}
        |-> Widened(w, slk, rec, n)]

\* one iteration of the first loop over the records of a category
MeasureRecord(st, slk, slv, verb) ==
    LET ordered ==
            IF st.keysOrdered THEN st
            ELSE [st EXCEPT !.keyOrder =
                                SortStrings({k \in DOMAIN slv.v : ~Excluded(k, verb)}),
                            !.keysOrdered = TRUE,
                            !.sample = <<slv>>]
    IN [ordered EXCEPT !.maxWidths = Widen(ordered.maxWidths, slk, slv.v)]

RECURSIVE Measure(_, _, _, _)
Measure(st, tlv, ord, verb) ==
    IF Len(ord) = 0 THEN st
    ELSE IF ~IsMap(tlv[ord[1]]) THEN [st EXCEPT !.panic = TRUE]
    ELSE Measure(MeasureRecord(st, ord[1], tlv[ord[1]], verb), tlv, Tail(ord), verb)

RECURSIVE HeaderCells(_, _)
HeaderCells(w, keys) ==
    IF Len(keys) = 0 THEN ""
    ELSE Pad(keys[1], Width(w, keys[1])) \o "  " \o HeaderCells(w, Tail(keys))

\* the header line, printed when keyOrder is not empty
Header(st) ==
    IF Len(st.keyOrder) > 0
    THEN <<Line(Pad("", Width(st.maxWidths, "key")) \o "  "
                \o HeaderCells(st.maxWidths, st.keyOrder))>>
    ELSE <<>>

NumericField(k) == k \in {"bytes_sent", "bytes_recvd", "uptime", "last_seen"}

\* the switch that formats one cell; x is a number for the numeric fields
FormatCell(k, x) ==
    IF k \in {"bytes_sent", "bytes_recvd"} THEN Itoa(x.v)
    ELSE IF k \in {"uptime", "last_seen"}
         THEN Itoa2(x.v \div 3600) \o ":" \o Itoa2((x.v \div 60) % 60)
              \o ":" \o Itoa2(x.v % 60)
         ELSE Sprint(x)

\* the cells of one record line after the key cell; a failed assertion cuts the line
RECURSIVE Cells(_, _, _, _)
Cells(w, slv, keys, sofar) ==
    IF Len(keys) = 0 THEN Ok(<<Line(sofar)>>)
    ELSE IF ~IsMap(slv) THEN Panic(<<Part(sofar)>>)
    ELSE IF NumericField(keys[1]) /\ ~IsNum(Get(slv.v, keys[1])) THEN Panic(<<Part(sofar)>>)
    ELSE Cells(w, slv, Tail(keys),
               sofar \o Pad(FormatCell(keys[1], Get(slv.v, keys[1])), Width(w, keys[1]))
                     \o "  ")

\* one iteration of the second loop over the records of a category
RecordLine(st, slk, slv) ==
    Cells(st.maxWidths, slv, st.keyOrder, Pad(slk, Width(st.maxWidths, "key")) \o "  ")

\* the iteration orders a range over x can take
Orders(x) == IF IsMap(x) THEN Perms(DOMAIN x.v) ELSE {<<>>}

\* the first half of the loop body for one category value tlv: the first loop over
\* its records, visited in the order ord1, and the header line
MeasureCategory(st, tlv, ord1, verb) ==
    IF ~IsMap(tlv) THEN [st EXCEPT !.out = <<>>, !.panic = TRUE]
    ELSE LET m == Measure(st, tlv.v, ord1, verb)
         IN IF m.panic THEN [m EXCEPT !.out = <<>>] ELSE [m EXCEPT !.out = Header(m)]

\* the second half: the second loop over the records, visited in the order ord2
EmitCategory(st, tlv, ord2) ==
    LET lines == Chain([i \in 1..Len(ord2) |-> RecordLine(st, ord2[i], tlv.v[ord2[i]])])
    IN [st EXCEPT !.out = st.out \o lines.out, !.panic = lines.panic]

\* the body of the loop over the categories
RenderCategory(st, tlv, ord1, ord2, verb) ==
    LET m == MeasureCategory(st, tlv, ord1, verb)
    IN IF m.panic THEN m ELSE EmitCategory(m, tlv, ord2)

\* the loop over the categories, for the categories left to visit
RECURSIVE RenderAll(_, _, _, _)
RenderAll(st, res, left, verb) ==
    IF left = {} THEN {Ok(<<>>)}
    ELSE UNION {UNION {UNION {
            LET r == RenderCategory(st, res[c], o1, o2, verb) IN
            IF r.panic THEN {Panic(r.out)}
            ELSE {[out |-> r.out \o rest.out, panic |-> rest.panic] :
                     rest \in RenderAll(r, res, left \ {c}, verb)}
         : o2 \in Orders(res[c])} : o1 \in Orders(res[c])} : c \in left}

handleVariousInfo(res, verb) == RenderAll(FreshTable, res, DOMAIN res, verb)

(***************************************************************************)
(* The dispatcher, handleAll.                                              *)
(***************************************************************************)
\* strings.ToLower on the command names of the model
LowerName(s) ==
    CASE s = "getPeers" -> "getpeers"
      [] s = "getDHT" -> "getdht"
      [] s = "getTunTap" -> "gettuntap"
      [] s = "getSelf" -> "getself"
      [] s = "getSwitchQueues" -> "getswitchqueues"
      [] s = "addPeer" -> "addpeer"
      [] s = "removeRoute" -> "removeroute"
      [] s = "getAllowedEncryptionPublicKeys" -> "getallowedencryptionpublickeys"
      [] s = "getMulticastInterfaces" -> "getmulticastinterfaces"
      [] s = "getSourceSubnets" -> "getsourcesubnets"
      [] s = "getRoutes" -> "getroutes"
      [] s = "setTunnelRouting" -> "settunnelrouting"
      [] s = "getTunnelRouting" -> "gettunnelrouting"
      [] s = "getNodeInfo" -> "getnodeinfo"
      [] s = "DOT" -> "dot"
      [] OTHER -> s

TableCommands == {"list", "getpeers", "getswitchpeers", "getdht", "getsessions", "dhtping"}
AddRemoveCommands ==
    {"addpeer", "removepeer", "addallowedencryptionpublickey",
     "removeallowedencryptionpublickey", "addsourcesubnet", "addroute",
     "removesourcesubnet", "removeroute"}

handleAll(rcv, verb) ==
    IF ~IsMap(Get(rcv, "request")) THEN {Panic(<<>>)}
    ELSE IF ~IsMap(Get(rcv, "response")) THEN {Panic(<<>>)}
    ELSE IF ~IsStr(Get(Get(rcv, "request").v, "request")) THEN {Panic(<<>>)}
    ELSE LET res == Get(rcv, "response").v
             cmd == LowerName(Get(Get(rcv, "request").v, "request").v)
         IN CASE cmd = "dot" -> handleDot(res)
              [] cmd \in TableCommands -> handleVariousInfo(res, verb)
              [] cmd \in {"gettuntap", "settuntap"} -> handleGetAndSetTunTap(res)
              [] cmd = "getself" -> handleGetSelf(res, verb)
              [] cmd = "getswitchqueues" -> handleGetSwitchQueues(res)
              [] cmd \in AddRemoveCommands -> handleAddsAndRemoves(res)
              [] cmd = "getallowedencryptionpublickeys" ->
                     handleGetAllowedEncryptionPublicKeys(res)
              [] cmd = "getmulticastinterfaces" -> handleGetMulticastInterfaces(res)
              [] cmd = "getsourcesubnets" -> handleGetSourceSubnets(res)
              [] cmd = "getroutes" -> handleGetRoutes(res)
              [] cmd \in {"settunnelrouting", "gettunnelrouting"} ->
                     handleGetTunnelRouting(res)
              [] OTHER -> {Ok(<<JsonText(Get(rcv, "response"))>>)}

(***************************************************************************)
(* run()'s deferred calls.  conn.Close() is deferred after the recover     *)
(* handler, so it runs first.  The handler's own result (return 1 or       *)
(* return 0) is the result of the deferred function, which a defer         *)
(* statement discards: after a recovered panic run() returns the zero      *)
(* value of its unnamed int result.                                        *)
(***************************************************************************)
InLog(lg, msg) == \E i \in 1..Len(lg) : lg[i] = msg

LogItems(lg) == [i \in 1..Len(lg) |-> [k |-> "log", s |-> lg[i]]]

\* deferred calls of a run whose conn.Close() is skipped while panicking
DeferredCallNoCloseOnPanic(d, f) ==
    IF d = "close"
    THEN IF f.panicking THEN f ELSE [f EXCEPT !.conn = "closed", !.closes = @ + 1]
    ELSE IF f.panicking
         THEN [f EXCEPT !.panicking = FALSE,
                        !.logbuf = Append(f.logbuf, "Fatal error"),
                        !.out = f.out \o LogItems(Append(f.logbuf, "Fatal error")),
                        !.ret = 0]
         ELSE f

\* one deferred call: conn.Close(), or the recover handler
DeferredCall(d, f) ==
    IF d = "close"
    THEN [f EXCEPT !.conn = "closed", !.closes = @ + 1]
    ELSE IF f.panicking
         THEN [f EXCEPT !.panicking = FALSE,
                        !.logbuf = Append(f.logbuf, "Fatal error"),
                        !.out = f.out \o LogItems(Append(f.logbuf, "Fatal error")),
                        !.ret = 0]
         ELSE f

\* the deferred calls of the stack, last pushed first
RECURSIVE RunDefers(_, _)
RunDefers(stack, f) ==
    IF Len(stack) = 0 THEN f
    ELSE RunDefers(SubSeq(stack, 1, Len(stack) - 1), DeferredCall(stack[Len(stack)], f))

(***************************************************************************)
(* Inputs: command lines.                                                  *)
(***************************************************************************)
\* first arguments: dot, -v, x=5
FirstTokens ==
    {<<"d", "o", "t">>,
     <<"-", "v">>,
     <<"x", "=", "5">>}

\* later arguments: x x=5 x=-5 x=TRUE x=False x=foo x=a=b x=5=5 x= request=y
ParamTokens ==
    {<<"x">>,
     <<"x", "=", "5">>,
     <<"x", "=", "-", "5">>,
     <<"x", "=", "T", "R", "U", "E">>,
     <<"x", "=", "F", "a", "l", "s", "e">>,
     <<"x", "=", "f", "o", "o">>,
     <<"x", "=", "a", "=", "b">>,
     <<"x", "=", "5", "=", "5">>,
     <<"x", "=">>,
     <<"r", "e", "q", "u", "e", "s", "t", "=", "y">>}

\* the argument lists of at most n arguments
RECURSIVE ArgLists(_)
ArgLists(n) ==
    IF n = 0 THEN {<<>>}
    ELSE IF n = 1 THEN {<<>>} \cup {<<a>> : a \in FirstTokens}
    ELSE ArgLists(n - 1)
         \cup {Append(l, a) : l \in {x \in ArgLists(n - 1) : Len(x) = n - 1}, a \in ParamTokens}

\* the command lines of the whole-run specification: none, dot, dot x=5
RunArgs == {<<>>, <<<<"d", "o", "t">>>>, <<<<"d", "o", "t">>, <<"x", "=", "5">>>>}

(***************************************************************************)
(* Inputs: the documents the daemon may answer with.                       *)
(***************************************************************************)
GoodRecord == M([port |-> N(1), uptime |-> N(125)])
KeysRecord ==
    M([box_pub_key |-> S("k"), box_sig_key |-> S("s"), name |-> S(""),
       nodeinfo |-> M([name |-> S("n")]), was_mtu_fixed |-> B(FALSE)])
EmptyRecord == M(EmptyMap)
NotARecord == S("x")

Queue(port, size) ==
    M([queue_port |-> N(port), queue_size |-> N(size), queue_packets |-> N(3),
       queue_id |-> S("a")])

\* the response values, well-shaped and ill-shaped, of every formatter
Responses ==
    {S("text"), Null, M(EmptyMap),
     M([dot |-> S("graph")]),
     M([peers |-> M([a |-> GoodRecord])]),
     M([peers |-> M([a |-> GoodRecord]), sessions |-> M(EmptyMap)]),
     M([peers |-> M([a |-> GoodRecord, bb |-> KeysRecord])]),
     M([peers |-> M([a |-> M([bytes_sent |-> N(1000000), bytes_recvd |-> N(7)])])]),
     M([peers |-> S("x")]),
     M([peers |-> M([a |-> S("x")])]),
     M([peers |-> M([a |-> M([bytes_sent |-> S("many")])])]),
     M([peers |-> M([a |-> M([uptime |-> Null])])]),
     M([tun0 |-> M([mtu |-> N(1500), tap_mode |-> B(FALSE)])]),
     M([tun0 |-> S("x")]),
     M([self |-> M([a |-> M([build_name |-> S("ygg"), key |-> S("ABCD"),
                             coords |-> S("[1 2]"), box_pub_key |-> S("k")])])]),
     M([self |-> M([a |-> N(1)])]),
     M([switchqueues |->
          M([queues_count |-> N(2), maximum_queues_size |-> N(256),
             queues |-> A(<<Queue(1, 128), Queue(1, 64), Queue(2, 256)>>)])]),
     M([switchqueues |->
          M([queues |-> A(<<Queue(1, 128),
                            M([queue_size |-> N(1), queue_packets |-> N(1),
                               queue_id |-> S("a")])>>)])]),
     M([switchqueues |-> M([queues |-> A(<<S("x")>>)])]),
     M([added |-> A(<<S("p")>>), not_removed |-> A(<<S("q"), N(2)>>)]),
     M([added |-> S("p")]),
     M([removed |-> Null]),
     M([allowed_box_pubs |-> A(<<S("k")>>), multicast_interfaces |-> A(<<S("eth0")>>),
        source_subnets |-> A(<<>>)]),
     M([allowed_box_pubs |-> Null, multicast_interfaces |-> S("eth0"),
        source_subnets |-> M(EmptyMap)]),
     M([routes |-> M([a |-> S("gw"), bb |-> N(1)])]),
     M([routes |-> M(EmptyMap)]),
     M([enabled |-> B(TRUE)]),
     M([enabled |-> S("yes")])}

\* the command names the daemon may echo
EchoedNames ==
    {"dot", "DOT", "getPeers", "list", "getTunTap", "getSelf", "getSwitchQueues",
     "addPeer", "removeRoute", "getAllowedEncryptionPublicKeys",
     "getMulticastInterfaces", "getSourceSubnets", "getRoutes", "setTunnelRouting",
     "getTunnelRouting", "getNodeInfo"}

Echo(name) == M([request |-> S(name)])

\* a response document with the optional fields given as sets of at most one value
Envelope(status, request, response, error) ==
    [k \in (IF status = {} THEN {} ELSE {"status"})
           \cup (IF request = {} THEN {} ELSE {"request"})
           \cup (IF response = {} THEN {} ELSE {"response"})
           \cup (IF error = {} THEN {} ELSE {"error"}) |->
        CASE k = "status" -> CHOOSE x \in status : TRUE
          [] k = "request" -> CHOOSE x \in request : TRUE
          [] k = "response" -> CHOOSE x \in response : TRUE
          [] k = "error" -> CHOOSE x \in error : TRUE]

\* documents with every combination of present and absent top-level fields
ProtocolDocs ==
    {Envelope(st, rq, rs, er) :
        st \in {{}, {S("success")}, {S("error")}, {S("weird")}, {N(0)}},
        rq \in {{}, {Echo("dot")}},
        rs \in {{}, {M([dot |-> S("graph")])}},
        er \in {{}, {S("disabled")}}}

\* successful documents for every echoed command and response value
CommandDocs ==
    {Envelope({S("success")}, {Echo(n)}, {r}, {}) : n \in EchoedNames, r \in Responses}

\* successful documents whose echoed request is ill-shaped
BadEchoDocs ==
    {Envelope({S("success")}, {rq}, {M([dot |-> S("graph")])}, {}) :
        rq \in {S("dot"), Null, M(EmptyMap), M([request |-> N(1)])}}

Docs == ProtocolDocs \cup CommandDocs \cup BadEchoDocs

(***************************************************************************)
(* Inputs: the responses the table renderer is run on.                     *)
(***************************************************************************)
RecordKeyOrder == <<"a", "bb", "ccc", "dddd", "eeeee">>
RecordPool == {GoodRecord, KeysRecord, EmptyRecord, NotARecord}
Categories == {"peers", "sessions"}

\* a category: not a record, or records of the pool under the first keys
CategoryValues ==
    {NotARecord}
    \cup UNION {{M(f) : f \in [{RecordKeyOrder[i] : i \in 1..n} -> RecordPool]} :
                   n \in 0..MaxRecords}

RecordCount(tlv) == IF IsMap(tlv) THEN Cardinality(DOMAIN tlv.v) ELSE 0

RECURSIVE TotalRecords(_, _)
TotalRecords(res, cats) ==
    IF cats = {} THEN 0
    ELSE LET c == CHOOSE x \in cats : TRUE
         IN RecordCount(res[c]) + TotalRecords(res, cats \ {c})

\* the responses of at most two categories and at most MaxRecords records in all
TableResponses ==
    {res \in UNION {[cs -> CategoryValues] : cs \in SUBSET Categories} :
        TotalRecords(res, DOMAIN res) <= MaxRecords}

(***************************************************************************)
(* run() as a state machine.  The initial state is the one after the       *)
(* logger is made and the recover handler is deferred.                     *)
(***************************************************************************)
InitRunState ==
    /\ pc = "start"
    /\ conn = "none"
    /\ closes = 0
    /\ defers = <<"recover">>
    /\ idx = 0
    /\ send = EmptyMap
    /\ wire = <<>>
    /\ recv = EmptyMap
    /\ logbuf = <<>>
    /\ out = <<>>
    /\ panicking = FALSE
    /\ ret = 0
    /\ exit = -1
    /\ ran = "none"

InitNoTable ==
    /\ tres = EmptyMap
    /\ tleft = {}
    /\ tcur = "none"
    /\ tst = FreshTable
    /\ tphase = "next"

Init ==
    /\ InitRunState
    /\ InitNoTable
    /\ args \in RunArgs
    /\ ver \in BOOLEAN
    /\ injson \in BOOLEAN
    /\ verbose \in BOOLEAN

inputVars == <<args, ver, injson, verbose>>

\* parseFlagsAndArgs, the version banner, the usage text, setEndpoint
ParseArgs ==
    /\ pc = "start"
    /\ IF ver
       THEN /\ out' = out \o <<Line("Build name: yggdrasil"), Line("Build version: 0"),
                               Line("To get the version number of the running Yggdrasil node, run yggdrasilctl getSelf")>>
            /\ ret' = 0
            /\ pc' = "return"
       ELSE IF Len(args) = 0
       THEN \* flag.Usage writes to standard error
            /\ out' = out
            /\ ret' = 0
            /\ pc' = "return"
       ELSE /\ out' = out
            /\ ret' = ret
            /\ pc' = "connect"
    /\ UNCHANGED <<inputVars, conn, closes, defers, idx, send, wire, recv, logbuf,
                   panicking, exit, ran, tableVars>>

\* connect returns a stream; conn.Close is deferred
ConnectOk ==
    /\ pc = "connect"
    /\ conn' = "open"
    /\ logbuf' = logbuf \o <<"Connecting", "Connected">>
    /\ defers' = Append(defers, "close")
    /\ pc' = "build"
    /\ UNCHANGED <<inputVars, closes, idx, send, wire, recv, out, panicking, ret, exit,
                   ran, tableVars>>

\* the dial fails or the scheme is unknown: connect panics
ConnectFail ==
    /\ pc = "connect"
    /\ logbuf' = Append(logbuf, "Connecting")
    /\ panicking' = TRUE
    /\ pc' = "unwind"
    /\ UNCHANGED <<inputVars, conn, closes, defers, idx, send, wire, recv, out, ret, exit,
                   ran, tableVars>>

\* one iteration of the loop over cmdLineEnv.args
BuildArg ==
    /\ pc = "build"
    /\ idx < Len(args)
    /\ send' = BuildParam(send, idx, args[idx + 1])
    /\ logbuf' = logbuf \o BuildLog(idx, args[idx + 1])
    /\ idx' = idx + 1
    /\ UNCHANGED <<pc, inputVars, conn, closes, defers, wire, recv, out, panicking, ret,
                   exit, ran, tableVars>>

\* encoder.Encode(&send) writes the document
EncodeOk ==
    /\ pc = "build"
    /\ idx = Len(args)
    /\ wire' = Append(wire, EncodeMap(send))
    /\ logbuf' = Append(logbuf, "Request sent")
    /\ pc' = "decode"
    /\ UNCHANGED <<inputVars, conn, closes, defers, idx, send, recv, out, panicking, ret,
                   exit, ran, tableVars>>

\* encoder.Encode(&send) returns an error: panic(err)
EncodeFail ==
    /\ pc = "build"
    /\ idx = Len(args)
    /\ panicking' = TRUE
    /\ pc' = "unwind"
    /\ UNCHANGED <<inputVars, conn, closes, defers, idx, send, wire, recv, logbuf, out,
                   ret, exit, ran, tableVars>>

\* decoder.Decode(&recv) fills recv with the document read
DecodeOk ==
    /\ pc = "decode"
    /\ \E doc \in Docs : recv' = doc
    /\ logbuf' = Append(logbuf, "Response received")
    /\ pc' = "respond"
    /\ UNCHANGED <<inputVars, conn, closes, defers, idx, send, wire, out, panicking, ret,
                   exit, ran, tableVars>>

\* decoder.Decode(&recv) returns an error (the stream ends, or the value is no
\* object): recv stays the empty map and run() goes on to the status test
DecodeFail ==
    /\ pc = "decode"
    /\ logbuf' = Append(logbuf, "Error receiving response")
    /\ pc' = "status"
    /\ UNCHANGED <<inputVars, conn, closes, defers, idx, send, wire, recv, out, panicking,
                   ret, exit, ran, tableVars>>

\* recv["status"] == "error"
RespondError ==
    /\ pc = "respond"
    /\ Get(recv, "status") = S("error")
    /\ out' = out \o
              (IF "error" \in DOMAIN recv
               THEN <<Line("Admin socket returned an error: " \o Sprint(recv["error"]))>>
               ELSE <<Line("Admin socket returned an error but didn't specify any error text")>>)
    /\ ret' = 1
    /\ pc' = "return"
    /\ UNCHANGED <<inputVars, conn, closes, defers, idx, send, wire, recv, logbuf,
                   panicking, exit, ran, tableVars>>

\* request or response is missing
RespondMalformed ==
    /\ pc = "respond"
    /\ Get(recv, "status") # S("error")
    /\ "request" \notin DOMAIN recv \/ "response" \notin DOMAIN recv
    /\ out' = out \o
              (IF "request" \notin DOMAIN recv
               THEN <<Line("Missing request in response (malformed response?)")>>
               ELSE <<Line("Missing response body (malformed response?)")>>)
    /\ ret' = 1
    /\ pc' = "return"
    /\ UNCHANGED <<inputVars, conn, closes, defers, idx, send, wire, recv, logbuf,
                   panicking, exit, ran, tableVars>>

\* res := recv["response"].(map[string]interface{}) fails
RespondNotRecord ==
    /\ pc = "respond"
    /\ Get(recv, "status") # S("error")
    /\ "request" \in DOMAIN recv /\ "response" \in DOMAIN recv
    /\ ~IsMap(recv["response"])
    /\ panicking' = TRUE
    /\ pc' = "unwind"
    /\ UNCHANGED <<inputVars, conn, closes, defers, idx, send, wire, recv, logbuf, out,
                   ret, exit, ran, tableVars>>

\* -json: the response is printed as indented JSON
RespondJson ==
    /\ pc = "respond"
    /\ Get(recv, "status") # S("error")
    /\ "request" \in DOMAIN recv /\ "response" \in DOMAIN recv
    /\ IsMap(recv["response"])
    /\ injson
    /\ out' = Append(out, JsonText(recv["response"]))
    /\ ran' = "json"
    /\ ret' = 0
    /\ pc' = "return"
    /\ UNCHANGED <<inputVars, conn, closes, defers, idx, send, wire, recv, logbuf,
                   panicking, exit, tableVars>>

\* handleAll(recv, cmdLineEnv.verbose)
RespondFormat ==
    /\ pc = "respond"
    /\ Get(recv, "status") # S("error")
    /\ "request" \in DOMAIN recv /\ "response" \in DOMAIN recv
    /\ IsMap(recv["response"])
    /\ ~injson
    /\ \E r \in handleAll(recv, verbose) :
          /\ out' = out \o r.out
          /\ panicking' = r.panic
          /\ pc' = IF r.panic THEN "unwind" ELSE "status"
    /\ ran' = "handleAll"
    /\ UNCHANGED <<inputVars, conn, closes, defers, idx, send, wire, recv, logbuf, ret,
                   exit, tableVars>>

\* if v, ok := recv["status"]; ok && v != "success" { return 1 }; return 0
FinalStatus ==
    /\ pc = "status"
    /\ ret' = IF "status" \in DOMAIN recv /\ recv["status"] # S("success") THEN 1 ELSE 0
    /\ pc' = "return"
    /\ UNCHANGED <<inputVars, conn, closes, defers, idx, send, wire, recv, logbuf, out,
                   panicking, exit, ran, tableVars>>

\* run() returns or unwinds: the deferred calls run, main hands the result to os.Exit
Exit ==
    /\ pc \in {"return", "unwind"}
    /\ LET f == RunDefers(defers,
                          [conn |-> conn, closes |-> closes, panicking |-> panicking,
                           logbuf |-> logbuf, out |-> out, ret |-> ret])
       IN /\ conn' = f.conn
          /\ closes' = f.closes
          /\ panicking' = f.panicking
          /\ logbuf' = f.logbuf
          /\ out' = f.out
          /\ ret' = f.ret
          /\ exit' = f.ret
    /\ defers' = <<>>
    /\ pc' = "exited"
    /\ UNCHANGED <<inputVars, idx, send, wire, recv, ran, tableVars>>

Next ==
    \/ ParseArgs
    \/ ConnectOk
    \/ ConnectFail
    \/ BuildArg
    \/ EncodeOk
    \/ EncodeFail
    \/ DecodeOk
    \/ DecodeFail
    \/ RespondError
    \/ RespondMalformed
    \/ RespondNotRecord
    \/ RespondJson
    \/ RespondFormat
    \/ FinalStatus
    \/ Exit

Spec == Init /\ [][Next]_vars

(***************************************************************************)
(* The request half of run() on the command lines of at most MaxArgs       *)
(* arguments.                                                              *)
(***************************************************************************)
InitRequest ==
    /\ InitRunState
    /\ InitNoTable
    /\ args \in ArgLists(MaxArgs)
    /\ ver = FALSE
    /\ injson = FALSE
    /\ verbose = FALSE

NextRequest ==
    \/ ParseArgs
    \/ ConnectOk
    \/ BuildArg
    \/ EncodeOk

SpecRequest == InitRequest /\ [][NextRequest]_vars

(***************************************************************************)
(* handleVariousInfo on the table responses, one category per step.        *)
(***************************************************************************)
InitTable ==
    /\ InitRunState
    /\ args = <<>>
    /\ ver = FALSE
    /\ injson = FALSE
    /\ verbose \in BOOLEAN
    /\ tres \in TableResponses
    /\ tleft = DOMAIN tres
    /\ tcur = "none"
    /\ tst = FreshTable
    /\ tphase = "next"

runVars == <<pc, args, ver, injson, verbose, conn, closes, defers, idx, send, wire,
             recv, logbuf, out, panicking, ret, exit, ran>>

\* the first loop over the records of the next category, and its header line
TableMeasure ==
    /\ ~tst.panic
    /\ tphase = "next"
    /\ \E c \in tleft : \E o1 \in Orders(tres[c]) :
          LET r == MeasureCategory(tst, tres[c], o1, verbose) IN
          /\ ~r.panic
          /\ tst' = r
          /\ tcur' = c
    /\ tphase' = "measured"
    /\ UNCHANGED <<tres, tleft, runVars>>

\* a type assertion fails in the first loop: handleVariousInfo panics
TableMeasureAbort ==
    /\ ~tst.panic
    /\ tphase = "next"
    /\ \E c \in tleft : \E o1 \in Orders(tres[c]) :
          LET r == MeasureCategory(tst, tres[c], o1, verbose) IN
          /\ r.panic
          /\ tst' = r
          /\ tcur' = c
    /\ UNCHANGED <<tres, tleft, tphase, runVars>>

\* the second loop over the records of the category: the record lines
TableEmit ==
    /\ ~tst.panic
    /\ tphase = "measured"
    /\ \E o2 \in Orders(tres[tcur]) : tst' = EmitCategory(tst, tres[tcur], o2)
    /\ tleft' = tleft \ {tcur}
    /\ tphase' = "next"
    /\ UNCHANGED <<tres, tcur, runVars>>

NextTable ==
    \/ TableMeasure
    \/ TableMeasureAbort
    \/ TableEmit

SpecTable == InitTable /\ [][NextTable]_vars

(***************************************************************************)
(* Properties.                                                             *)
(***************************************************************************)
\* the round trip succeeded: a document was decoded, nothing panicked, and the
\* document has status "success" with request and response present
RoundTripSucceeded ==
    /\ InLog(logbuf, "Response received")
    /\ ~InLog(logbuf, "Fatal error")
    /\ Get(recv, "status") = S("success")
    /\ "request" \in DOMAIN recv
    /\ "response" \in DOMAIN recv

\* C1: a run with a command argument exits with 1 whenever anything failed (connect,
\* encode, decode, status "error", a missing field, a status other than "success",
\* a recovered panic) and with 0 only when the round trip succeeded with status
\* "success".
C1_ExitCode ==
    (pc = "exited" /\ ~ver /\ Len(args) > 0) =>
        /\ exit \in {0, 1}
        /\ ~RoundTripSucceeded => exit = 1
        /\ exit = 0 => RoundTripSucceeded

\* C2: a formatter (handleAll or the raw-JSON output) runs only on a document with
\* status "success" and both request and response present; with status "error"
\* only the error line is printed, with a field missing only the malformed-response
\* line.
C2_FormatterOnlyOnSuccess ==
    /\ ran # "none" =>
          /\ Get(recv, "status") = S("success")
          /\ "request" \in DOMAIN recv
          /\ "response" \in DOMAIN recv
    /\ (pc = "return" /\ Get(recv, "status") = S("error")) =>
          /\ ran = "none"
          /\ out = <<Line(IF "error" \in DOMAIN recv
                          THEN "Admin socket returned an error: " \o Sprint(recv["error"])
                          ELSE "Admin socket returned an error but didn't specify any error text")>>
    /\ (pc = "return" /\ InLog(logbuf, "Response received")
        /\ Get(recv, "status") # S("error")
        /\ ("request" \notin DOMAIN recv \/ "response" \notin DOMAIN recv)) =>
          /\ ran = "none"
          /\ Len(out) = 1

\* what C3 says an argument a after the first stores, from the count of '=' in a
EqCount(a) == Cardinality({i \in 1..Len(a) : a[i] = "="})
AfterFirstEq(a) == SubSeq(a, FirstEq(a) + 1, Len(a))
SameIgnoringCase(v, word) ==
    Len(v) = Len(word) /\ \A i \in 1..Len(v) : LowerChar(v[i]) = word[i]
ClaimKey(a) == IF EqCount(a) = 0 THEN a ELSE SubSeq(a, 1, FirstEq(a) - 1)
ClaimValue(a) ==
    IF EqCount(a) = 0 THEN GoBool(TRUE)
    ELSE IF EqCount(a) > 1 THEN GoString(AfterFirstEq(a))
    ELSE IF AtoiOk(AfterFirstEq(a)) THEN GoInt(AtoiVal(AfterFirstEq(a)))
    ELSE IF SameIgnoringCase(AfterFirstEq(a), TrueText) THEN GoBool(TRUE)
    ELSE IF SameIgnoringCase(AfterFirstEq(a), FalseText) THEN GoBool(FALSE)
    ELSE GoString(AfterFirstEq(a))

\* C3: each argument after the first stores exactly one parameter: true without
\* '='; with one '=' the integer, else the boolean (case-insensitively), else the
\* text; with more than one '=' the text after the first '=' with no coercion
\* (x=5 is 5, x=TRUE is true, x=a=b is "a=b", x=5=5 is "5=5").
C3_ParamCoercion ==
    [][(pc = "build" /\ idx >= 1 /\ idx' = idx + 1) =>
          LET a == args[idx + 1] IN
          /\ send' = MapPut(send, ClaimKey(a), ClaimValue(a))
          /\ a = <<"x", "=", "5">> => send'[<<"x">>] = GoInt(5)
          /\ a = <<"x", "=", "T", "R", "U", "E">> => send'[<<"x">>] = GoBool(TRUE)
          /\ a = <<"x", "=", "a", "=", "b">> => send'[<<"x">>] = GoString(<<"a", "=", "b">>)
          /\ a = <<"x", "=", "5", "=", "5">> => send'[<<"x">>] = GoString(<<"5", "=", "5">>)
      ]_vars

\* the loop has stored x=5=5 as the text "5=5" after storing another parameter
C3_Witness ==
    /\ pc = "build"
    /\ idx = 3
    /\ args[2] = <<"x", "=", "T", "R", "U", "E">>
    /\ send[<<"x">>] = GoString(<<"5", "=", "5">>)

\* C4: the document written is an object whose "request" key is always present and
\* always equals the first argument, whatever the later arguments are.
C4_RequestIsFirstArg ==
    Len(wire) > 0 =>
        /\ wire[1].t = "map"
        /\ RequestKey \in DOMAIN wire[1].v
        /\ wire[1].v[RequestKey] = [t |-> "str", v |-> args[1]]

\* C5: on a decoded document with status "success" and request and response
\* present, the dispatcher and the formatters never abort, whatever the tags of
\* the nested values.
C5_FormattersNeverAbort ==
    (/\ InLog(logbuf, "Response received")
     /\ Get(recv, "status") = S("success")
     /\ "request" \in DOMAIN recv
     /\ "response" \in DOMAIN recv) =>
        (pc # "unwind" /\ ~InLog(logbuf, "Fatal error"))

ClaimHidden == {"box_pub_key", "box_sig_key", "nodeinfo", "was_mtu_fixed"}
Columns == {tst.keyOrder[i] : i \in 1..Len(tst.keyOrder)}

\* C6: box_pub_key, box_sig_key, nodeinfo and was_mtu_fixed are never columns when
\* verbose is false, are columns when verbose is true and the sampled record has
\* them, and no other field of the sampled record is left out.
C6_ColumnFilter ==
    /\ ~verbose => Columns \cap ClaimHidden = {}
    /\ tst.keysOrdered =>
          /\ verbose => (DOMAIN tst.sample[1].v) \cap ClaimHidden \subseteq Columns
          /\ (DOMAIN tst.sample[1].v) \ ClaimHidden \subseteq Columns
          /\ Columns \subseteq DOMAIN tst.sample[1].v

\* a header was printed, without verbose, from a sampled record that has nodeinfo
C6_Witness ==
    /\ ~verbose
    /\ tphase = "measured"
    /\ tst.keysOrdered
    /\ "nodeinfo" \in DOMAIN tst.sample[1].v
    /\ Len(tst.out) = 1

\* C7: once connect has returned a stream, it is closed exactly once before the
\* process exits, on every exit path: return, error return, decode failure, panic.
C7_ClosedExactlyOnce ==
    /\ closes <= 1
    /\ conn = "none" => closes = 0
    /\ conn = "closed" <=> closes = 1
    /\ pc = "exited" => conn # "open"

\* a formatter panicked, and the process exited with the stream closed once
C7_Witness ==
    /\ pc = "exited"
    /\ ran = "handleAll"
    /\ InLog(logbuf, "Fatal error")
    /\ closes = 1

\* the table renderer has just finished a category without a panic
CategoryDone == tphase = "next" /\ tcur # "none" /\ ~tst.panic

\* C8: what a category prints is what it prints when rendered alone: columns and
\* widths are not carried over from the categories processed before it.
C8_CategoryAlone ==
    CategoryDone =>
        tst.out \in {RenderCategory(FreshTable, tres[tcur], o1, o2, verbose).out :
                        o1 \in Orders(tres[tcur]), o2 \in Orders(tres[tcur])}

RECURSIVE SetMax(_)
SetMax(ns) ==
    IF ns = {} THEN 0
    ELSE LET n == CHOOSE x \in ns : TRUE IN Max(n, SetMax(ns \ {n}))

\* C9: a column's width is the maximum of its header's length and the lengths of
\* the formatted values of the category's records; the key column's width is the
\* maximum length of the record keys.
C9_Widths ==
    CategoryDone =>
        LET recs == tres[tcur].v IN
        /\ \A k \in Columns :
              Width(tst.maxWidths, k) =
                  SetMax({Len(k)} \cup {Len(FormatCell(k, Get(recs[r].v, k))) : r \in DOMAIN recs})
        /\ DOMAIN recs # {} =>
              Width(tst.maxWidths, "key") = SetMax({Len(r) : r \in DOMAIN recs})

\* C10: a category without records prints nothing; a category with records prints
\* one header line and one line per record.
C10_LinesPerCategory ==
    CategoryDone =>
        /\ RecordCount(tres[tcur]) = 0 => tst.out = <<>>
        /\ RecordCount(tres[tcur]) > 0 => Len(tst.out) = RecordCount(tres[tcur]) + 1

====
